---- MODULE Spec2Model ----
(***************************************************************************)
(* The physics-informed training pipeline of pinn_ec(18_11).py as a state  *)
(* machine: load -> MinMaxScaler fit/transform -> train_test_split ->      *)
(* model/optimizer/loader construction -> epoch loop (training batches,    *)
(* validation batches) -> evaluation with the scaler's inverse transform.  *)
(*                                                                         *)
(* Reals are exact fractions <<n, d>> (float rounding is not modelled).    *)
(* A loss, a gradient and the parameters carry whether they are finite;    *)
(* the magnitude of a finite loss is not modelled.  Python's 0-based       *)
(* indices are 1-based here.                                               *)
(***************************************************************************)
EXTENDS Integers, Sequences, FiniteSets

\* ---------------------------------------------------------------- bounds
\* Largest number of rows of the table read at line 34.
MaxN == 5
\* The script sets epochs = 1500 and batch_size = 32 (lines 104-105); the
\* model draws them from 1..MaxEpochs and 1..MaxBatchSize.
MaxEpochs == 2
MaxBatchSize == 2

\* --------------------------------------------------- program constants
\* len(features), lines 37-38.
NumFeatures == 9
\* test_size = 0.25 = TestSizeNum / TestSizeDen, line 51.
TestSizeNum == 1
TestSizeDen == 4

VARIABLES
    pc,             \* the statement the script is at
    error,          \* the exception that ended the script, or "none"
    epochs,         \* line 104
    batch_size,     \* line 105
    X, y,           \* lines 41-42: raw feature matrix and target column
    scaler_X,       \* lines 45, 47
    scaler_y,       \* lines 46, 48
    X_scaled, y_scaled,
    ind_train, ind_test,     \* the index arrays inside train_test_split
    X_train, y_train, X_val, y_val,
    params,         \* model.parameters(): number of updates applied, finiteness
    opt,            \* Adam's state: steps taken, finiteness of its moments
    grad,           \* the .grad buffers: the batch gradients accumulated in them
    mode,           \* model.training: "train" or "eval"
    train_losses, val_losses,
    epoch,          \* number of epochs completed (the loop variable of line 122)
    train_loss, val_loss,    \* running totals of lines 124/130 and 136/140
    batches,        \* the batches the current loader iterator yields
    bi,             \* index of the next batch of that iterator
    loss,           \* the loss of lines 127/139
    y_pred,         \* lines 158-159
    y_train_actual, y_val_actual   \* lines 161-162

vars == <<pc, error, epochs, batch_size, X, y, scaler_X, scaler_y, X_scaled,
          y_scaled, ind_train, ind_test, X_train, y_train, X_val, y_val,
          params, opt, grad, mode, train_losses, val_losses, epoch,
          train_loss, val_loss, batches, bi, loss, y_pred, y_train_actual,
          y_val_actual>>

\* ------------------------------------------------------------ fractions
Abs(a) == IF a < 0 THEN -a ELSE a

RECURSIVE Gcd(_, _)
Gcd(a, b) == IF b = 0 THEN a ELSE Gcd(b, a % b)

\* The fraction n/d in lowest terms with a positive denominator.
Frac(n, d) ==
    LET g == Gcd(Abs(n), Abs(d))
        s == IF d < 0 THEN -1 ELSE 1
    IN  <<(s * n) \div g, (s * d) \div g>>

FracOfInt(v) == <<v, 1>>
FracAdd(p, q) == Frac(p[1] * q[2] + q[1] * p[2], p[2] * q[2])
FracSub(p, q) == Frac(p[1] * q[2] - q[1] * p[2], p[2] * q[2])
FracMul(p, q) == Frac(p[1] * q[1], p[2] * q[2])
FracDiv(p, q) == Frac(p[1] * q[2], p[2] * q[1])

\* ------------------------------------------------------------- the data
\* The tables the model reads: n rows, every entry 2, except that the first
\* row holds 5 in every column other than the constant one (const = 0: no
\* column is constant; const = NumFeatures + 1: the target is constant).
FeatureRow(i, const) ==
    [c \in 1..NumFeatures |-> IF i = 1 /\ c # const THEN 5 ELSE 2]

TargetRow(i, const) ==
    <<IF i = 1 /\ const # NumFeatures + 1 THEN 5 ELSE 2>>

ConstChoices == {0, 3, NumFeatures + 1}

\* ------------------------------------------------------- MinMaxScaler
Unfitted == [data_min |-> <<>>, data_max |-> <<>>, scale_ |-> <<>>, min_ |-> <<>>]

ColMin(M, c) == CHOOSE v \in {M[i][c] : i \in 1..Len(M)} :
                    \A i \in 1..Len(M) : v <= M[i][c]
ColMax(M, c) == CHOOSE v \in {M[i][c] : i \in 1..Len(M)} :
                    \A i \in 1..Len(M) : v >= M[i][c]

\* sklearn's _handle_zeros_in_scale: a zero range is replaced by 1.
HandleZerosInScale(r) == IF r = 0 THEN 1 ELSE r

\* MinMaxScaler.fit with feature_range (0, 1).
ScalerFit(M) ==
    LET cols == 1..Len(M[1])
        lo == [c \in cols |-> ColMin(M, c)]
        hi == [c \in cols |-> ColMax(M, c)]
        sc == [c \in cols |-> Frac(1, HandleZerosInScale(hi[c] - lo[c]))]
    IN  [data_min |-> lo, data_max |-> hi, scale_ |-> sc,
         min_ |-> [c \in cols |-> FracSub(FracOfInt(0), FracMul(FracOfInt(lo[c]), sc[c]))]]

\* MinMaxScaler.transform: X * scale_ + min_.
ScalerTransform(M, s) ==
    [i \in 1..Len(M) |->
        [c \in 1..Len(M[i]) |-> FracAdd(FracMul(FracOfInt(M[i][c]), s.scale_[c]), s.min_[c])]]

\* MinMaxScaler.inverse_transform: (X - min_) / scale_.
ScalerInverse(M, s) ==
    [i \in 1..Len(M) |->
        [c \in 1..Len(M[i]) |-> FracDiv(FracSub(M[i][c], s.min_[c]), s.scale_[c])]]

\* ---------------------------------------------------- train_test_split
\* ceil(a / b) for a >= 0, b > 0.
CeilDiv(a, b) == (a + b - 1) \div b

\* sklearn's _validate_shuffle_split: n_test = ceil(test_size * n_samples),
\* n_train = n_samples - n_test (train_size is None).
NTestRoundedDown(n) == (n * TestSizeNum) \div TestSizeDen
NTest(n) == CeilDiv(n * TestSizeNum, TestSizeDen)
NTrain(n) == n - NTest(n)

\* rng.permutation(n): some permutation of the indices.
RngPermutations(n) ==
    {p \in [1..n -> 1..n] : \A i, j \in 1..n : i # j => p[i] # p[j]}

\* _safe_indexing(a, indices)
Take(M, idx) == [i \in 1..Len(idx) |-> M[idx[i]]]

\* -------------------------------------------------------- DataLoader
\* The sampler: RandomSampler (shuffle=True) or SequentialSampler.
Sampler(shuffle, n) ==
    IF shuffle THEN RngPermutations(n) ELSE {[i \in 1..n |-> i]}

\* len(loader) with drop_last=False.
NumBatches(n, bs) == CeilDiv(n, bs)

\* BatchSampler with drop_last=True.
BatchSamplerDropLast(order, bs) ==
    [k \in 1..(Len(order) \div bs) |-> SubSeq(order, (k - 1) * bs + 1, k * bs)]

\* BatchSampler: consecutive groups of bs indices, the last one shorter.
BatchSampler(order, bs) ==
    [k \in 1..NumBatches(Len(order), bs) |->
        SubSeq(order, (k - 1) * bs + 1,
               IF k * bs < Len(order) THEN k * bs ELSE Len(order))]

TrainShuffle == TRUE
ValShuffle == FALSE

\* --------------------------------------------------------------- Init
NoLoss == [finite |-> TRUE, at |-> 0, batch |-> <<>>]
NoTotal == [finite |-> TRUE, terms |-> 0]
NoPred == [n_train |-> 0, n_val |-> 0, at |-> 0, finite |-> TRUE]

InitWith(consts) ==
    /\ pc = "fit_X"
    /\ error = "none"
    /\ epochs \in 1..MaxEpochs
    /\ batch_size \in 1..MaxBatchSize
    /\ \E n \in 0..MaxN : \E const \in consts :
          /\ X = [i \in 1..n |-> FeatureRow(i, const)]
          /\ y = [i \in 1..n |-> TargetRow(i, const)]
    /\ scaler_X = Unfitted
    /\ scaler_y = Unfitted
    /\ X_scaled = <<>>
    /\ y_scaled = <<>>
    /\ ind_train = <<>>
    /\ ind_test = <<>>
    /\ X_train = <<>>
    /\ y_train = <<>>
    /\ X_val = <<>>
    /\ y_val = <<>>
    /\ params = [updates |-> 0, finite |-> TRUE]
    /\ opt = [steps |-> 0, finite |-> TRUE]
    /\ grad = <<>>
    /\ mode = "train"
    /\ train_losses = <<>>
    /\ val_losses = <<>>
    /\ epoch = 0
    /\ train_loss = NoTotal
    /\ val_loss = NoTotal
    /\ batches = <<>>
    /\ bi = 1
    /\ loss = NoLoss
    /\ y_pred = NoPred
    /\ y_train_actual = <<>>
    /\ y_val_actual = <<>>

Init == InitWith(ConstChoices)

\* ------------------------------------------------------ preprocessing
Fail(exc) ==
    /\ pc' = "failed"
    /\ error' = exc

\* Line 47: X_scaled = scaler_X.fit_transform(X).  check_array rejects an
\* array with no rows.
FitTransformX ==
    /\ pc = "fit_X"
    /\ IF Len(X) = 0
       THEN /\ Fail("ValueError")
            /\ UNCHANGED <<scaler_X, X_scaled>>
       ELSE /\ scaler_X' = ScalerFit(X)
            /\ X_scaled' = ScalerTransform(X, scaler_X')
            /\ pc' = "fit_y"
            /\ UNCHANGED error
    /\ UNCHANGED <<epochs, batch_size, X, y, scaler_y, y_scaled, ind_train,
                   ind_test, X_train, y_train, X_val, y_val, params, opt, grad,
                   mode, train_losses, val_losses, epoch, train_loss, val_loss,
                   batches, bi, loss, y_pred, y_train_actual, y_val_actual>>

\* Line 48: y_scaled = scaler_y.fit_transform(y).
FitTransformY ==
    /\ pc = "fit_y"
    /\ scaler_y' = ScalerFit(y)
    /\ y_scaled' = ScalerTransform(y, scaler_y')
    /\ pc' = "split"
    /\ UNCHANGED <<error, epochs, batch_size, X, y, scaler_X, X_scaled,
                   ind_train, ind_test, X_train, y_train, X_val, y_val, params,
                   opt, grad, mode, train_losses, val_losses, epoch, train_loss,
                   val_loss, batches, bi, loss, y_pred, y_train_actual,
                   y_val_actual>>

\* Line 51, first half: ShuffleSplit draws a permutation; the first n_test
\* indices are the test indices, the next n_train the train indices.  An
\* empty train set is a ValueError.
SplitTest(perm, n) == SubSeq(perm, 1, NTest(n))
SplitTrainOverlapping(perm, n) == SubSeq(perm, NTest(n), NTest(n) + NTrain(n) - 1)
SplitTrain(perm, n) == SubSeq(perm, NTest(n) + 1, NTest(n) + NTrain(n))

ShuffleSplit ==
    /\ pc = "split"
    /\ IF NTrain(Len(X_scaled)) = 0
       THEN /\ Fail("ValueError")
            /\ UNCHANGED <<ind_train, ind_test>>
       ELSE /\ \E perm \in RngPermutations(Len(X_scaled)) :
                  /\ ind_test' = SplitTest(perm, Len(X_scaled))
                  /\ ind_train' = SplitTrain(perm, Len(X_scaled))
            /\ pc' = "index"
            /\ UNCHANGED error
    /\ UNCHANGED <<epochs, batch_size, X, y, scaler_X, scaler_y, X_scaled,
                   y_scaled, X_train, y_train, X_val, y_val, params, opt, grad,
                   mode, train_losses, val_losses, epoch, train_loss, val_loss,
                   batches, bi, loss, y_pred, y_train_actual, y_val_actual>>

\* Lines 51-57: the four arrays are indexed out of the scaled data; the
\* index arrays are locals of train_test_split and are gone on return.
Indexing ==
    /\ pc = "index"
    /\ X_train' = Take(X_scaled, ind_train)
    /\ X_val' = Take(X_scaled, ind_test)
    /\ y_train' = Take(y_scaled, ind_train)
    /\ y_val' = Take(y_scaled, ind_test)
    /\ ind_train' = <<>>
    /\ ind_test' = <<>>
    /\ pc' = "init_model"
    /\ UNCHANGED <<error, epochs, batch_size, X, y, scaler_X, scaler_y,
                   X_scaled, y_scaled, params, opt, grad, mode, train_losses,
                   val_losses, epoch, train_loss, val_loss, batches, bi, loss,
                   y_pred, y_train_actual, y_val_actual>>

\* Lines 108-120: model, optimizer, loaders, empty loss histories.
Initialize ==
    /\ pc = "init_model"
    /\ params' = [updates |-> 0, finite |-> TRUE]
    /\ opt' = [steps |-> 0, finite |-> TRUE]
    /\ mode' = "train"
    /\ train_losses' = <<>>
    /\ val_losses' = <<>>
    /\ epoch' = 0
    /\ pc' = "epoch"
    /\ UNCHANGED <<error, epochs, batch_size, X, y, scaler_X, scaler_y,
                   X_scaled, y_scaled, ind_train, ind_test, X_train, y_train,
                   X_val, y_val, grad, train_loss, val_loss, batches, bi, loss,
                   y_pred, y_train_actual, y_val_actual>>

\* ------------------------------------------------------- training loop
\* Line 122: for epoch in range(epochs).
MoreEpochsStopsEarly(done, total) == done < total - 1
MoreEpochs(done, total) == done < total

\* Lines 122-125: the epoch begins; the train loader's iterator is made.
StartEpoch ==
    /\ pc = "epoch"
    /\ MoreEpochs(epoch, epochs)
    /\ mode' = "train"
    /\ train_loss' = NoTotal
    /\ \E order \in Sampler(TrainShuffle, Len(X_train)) :
          batches' = BatchSampler(order, batch_size)
    /\ bi' = 1
    /\ pc' = "train_iter"
    /\ UNCHANGED <<error, epochs, batch_size, X, y, scaler_X, scaler_y,
                   X_scaled, y_scaled, ind_train, ind_test, X_train, y_train,
                   X_val, y_val, params, opt, grad, train_losses, val_losses,
                   epoch, val_loss, loss, y_pred, y_train_actual, y_val_actual>>

\* Line 126: optimizer.zero_grad().
GradKept(g) == g
ZeroedGrad(g) == <<>>

ZeroGrad ==
    /\ pc = "train_iter"
    /\ bi <= Len(batches)
    /\ grad' = ZeroedGrad(grad)
    /\ pc' = "forward"
    /\ UNCHANGED <<error, epochs, batch_size, X, y, scaler_X, scaler_y,
                   X_scaled, y_scaled, ind_train, ind_test, X_train, y_train,
                   X_val, y_val, params, opt, mode, train_losses, val_losses,
                   epoch, train_loss, val_loss, batches, bi, loss, y_pred,
                   y_train_actual, y_val_actual>>

\* combined_loss (lines 89-93) on a batch: computed from the parameters as
\* they are; finite parameters may still give an overflowing loss,
\* non-finite ones give a non-finite loss.
CombinedLoss(batch) ==
    {[finite |-> f, at |-> params.updates, batch |-> batch] :
        f \in IF params.finite THEN BOOLEAN ELSE {FALSE}}

\* Line 127.
Forward ==
    /\ pc = "forward"
    /\ loss' \in CombinedLoss(batches[bi])
    /\ pc' = "backward"
    /\ UNCHANGED <<error, epochs, batch_size, X, y, scaler_X, scaler_y,
                   X_scaled, y_scaled, ind_train, ind_test, X_train, y_train,
                   X_val, y_val, params, opt, grad, mode, train_losses,
                   val_losses, epoch, train_loss, val_loss, batches, bi,
                   y_pred, y_train_actual, y_val_actual>>

\* Line 128: loss.backward() adds this loss's gradient to the buffers.
Backward ==
    /\ pc = "backward"
    /\ grad' = Append(grad, [batch |-> loss.batch, finite |-> loss.finite])
    /\ pc' = "step"
    /\ UNCHANGED <<error, epochs, batch_size, X, y, scaler_X, scaler_y,
                   X_scaled, y_scaled, ind_train, ind_test, X_train, y_train,
                   X_val, y_val, params, opt, mode, train_losses, val_losses,
                   epoch, train_loss, val_loss, batches, bi, loss, y_pred,
                   y_train_actual, y_val_actual>>

GradFinite(g) == \A i \in 1..Len(g) : g[i].finite

\* Line 129: optimizer.step(), one Adam update from the gradient buffers.
AdamStep ==
    /\ opt' = [steps |-> opt.steps + 1, finite |-> opt.finite /\ GradFinite(grad)]
    /\ params' = [updates |-> params.updates + 1,
                  finite |-> params.finite /\ opt.finite /\ GradFinite(grad)]

Step ==
    /\ pc = "step"
    /\ AdamStep
    /\ pc' = "accumulate"
    /\ UNCHANGED <<error, epochs, batch_size, X, y, scaler_X, scaler_y,
                   X_scaled, y_scaled, ind_train, ind_test, X_train, y_train,
                   X_val, y_val, grad, mode, train_losses, val_losses, epoch,
                   train_loss, val_loss, batches, bi, loss, y_pred,
                   y_train_actual, y_val_actual>>

\* total += loss.item()
AddLoss(total, l) ==
    [finite |-> total.finite /\ l.finite, terms |-> total.terms + 1]

\* Line 130, and the loop of line 125 moves to the next batch.
Accumulate ==
    /\ pc = "accumulate"
    /\ train_loss' = AddLoss(train_loss, loss)
    /\ bi' = bi + 1
    /\ pc' = "train_iter"
    /\ UNCHANGED <<error, epochs, batch_size, X, y, scaler_X, scaler_y,
                   X_scaled, y_scaled, ind_train, ind_test, X_train, y_train,
                   X_val, y_val, params, opt, grad, mode, train_losses,
                   val_losses, epoch, val_loss, batches, loss, y_pred,
                   y_train_actual, y_val_actual>>

\* total / len(loader)
Average(total, n) == [finite |-> total.finite, terms |-> total.terms, over |-> n]

\* history.append(entry)
Prepended(history, entry) == <<entry>> \o history
Appended(history, entry) == Append(history, entry)

\* Line 132.
AppendTrainLoss ==
    /\ pc = "train_iter"
    /\ bi > Len(batches)
    /\ train_losses' =
          Appended(train_losses,
                   Average(train_loss, NumBatches(Len(X_train), batch_size)))
    /\ pc' = "validate"
    /\ UNCHANGED <<error, epochs, batch_size, X, y, scaler_X, scaler_y,
                   X_scaled, y_scaled, ind_train, ind_test, X_train, y_train,
                   X_val, y_val, params, opt, grad, mode, val_losses, epoch,
                   train_loss, val_loss, batches, bi, loss, y_pred,
                   y_train_actual, y_val_actual>>

\* Lines 135-138: eval mode, val_loss = 0, the val loader's iterator.
BeginValidation ==
    /\ pc = "validate"
    /\ mode' = "eval"
    /\ val_loss' = NoTotal
    /\ \E order \in Sampler(ValShuffle, Len(X_val)) :
          batches' = BatchSampler(order, batch_size)
    /\ bi' = 1
    /\ pc' = "val_iter"
    /\ UNCHANGED <<error, epochs, batch_size, X, y, scaler_X, scaler_y,
                   X_scaled, y_scaled, ind_train, ind_test, X_train, y_train,
                   X_val, y_val, params, opt, grad, train_losses, val_losses,
                   epoch, train_loss, loss, y_pred, y_train_actual,
                   y_val_actual>>

ValUpdateSteps ==
    AdamStep /\ UNCHANGED grad

\* What a validation batch does to the parameters and the optimizer:
\* nothing (torch.no_grad, no backward, no step).
ValUpdate ==
    UNCHANGED <<params, opt, grad>>

\* Lines 138-140.
ValBatch ==
    /\ pc = "val_iter"
    /\ bi <= Len(batches)
    /\ \E l \in CombinedLoss(batches[bi]) :
          /\ loss' = l
          /\ val_loss' = AddLoss(val_loss, l)
    /\ ValUpdate
    /\ bi' = bi + 1
    /\ UNCHANGED <<pc, error, epochs, batch_size, X, y, scaler_X, scaler_y,
                   X_scaled, y_scaled, ind_train, ind_test, X_train, y_train,
                   X_val, y_val, mode, train_losses, val_losses, epoch,
                   train_loss, batches, y_pred, y_train_actual, y_val_actual>>

\* Lines 141-144, and the loop of line 122 moves to the next epoch.
AppendValLoss ==
    /\ pc = "val_iter"
    /\ bi > Len(batches)
    /\ val_losses' =
          Appended(val_losses,
                   Average(val_loss, NumBatches(Len(X_val), batch_size)))
    /\ epoch' = epoch + 1
    /\ pc' = "epoch"
    /\ UNCHANGED <<error, epochs, batch_size, X, y, scaler_X, scaler_y,
                   X_scaled, y_scaled, ind_train, ind_test, X_train, y_train,
                   X_val, y_val, params, opt, grad, mode, train_losses,
                   train_loss, val_loss, batches, bi, loss, y_pred,
                   y_train_actual, y_val_actual>>

\* Line 122: range(epochs) is exhausted.
FinishTraining ==
    /\ pc = "epoch"
    /\ ~MoreEpochs(epoch, epochs)
    /\ pc' = "evaluate"
    /\ UNCHANGED <<error, epochs, batch_size, X, y, scaler_X, scaler_y,
                   X_scaled, y_scaled, ind_train, ind_test, X_train, y_train,
                   X_val, y_val, params, opt, grad, mode, train_losses,
                   val_losses, epoch, train_loss, val_loss, batches, bi, loss,
                   y_pred, y_train_actual, y_val_actual>>

\* --------------------------------------------------------- evaluation
\* scaler.fit on the rows just mapped back, instead of only reading it.
ScalerRefitted(s, M) ==
    ScalerFit([i \in 1..Len(M) |->
                  [c \in 1..Len(M[i]) |-> ScalerInverse(M, s)[i][c][1]]])

\* The scaler the evaluation leaves behind: inverse_transform reads it.
ScalerAfterInverse(s, M) == s

\* Lines 156-159: forward passes over both sets under no_grad; the
\* predictions are finite when the parameters are.
Evaluate ==
    /\ pc = "evaluate"
    /\ mode' = "eval"
    /\ y_pred' = [n_train |-> Len(X_train), n_val |-> Len(X_val),
                  at |-> params.updates, finite |-> params.finite]
    /\ pc' = "denormalize"
    /\ UNCHANGED <<error, epochs, batch_size, X, y, scaler_X, scaler_y,
                   X_scaled, y_scaled, ind_train, ind_test, X_train, y_train,
                   X_val, y_val, params, opt, grad, train_losses, val_losses,
                   epoch, train_loss, val_loss, batches, bi, loss,
                   y_train_actual, y_val_actual>>

\* Lines 161-164: the targets, then the predictions, are mapped back with
\* scaler_y.  inverse_transform accepts NaN and rejects infinity: on
\* non-finite predictions line 163 either raises or goes on.
Denormalize ==
    /\ pc = "denormalize"
    /\ y_train_actual' = ScalerInverse(y_train, scaler_y)
    /\ y_val_actual' = ScalerInverse(y_val, scaler_y)
    /\ scaler_y' = ScalerAfterInverse(scaler_y, y_val)
    /\ \/ /\ pc' = "metrics"
          /\ UNCHANGED error
       \/ /\ ~y_pred.finite
          /\ Fail("ValueError")
    /\ UNCHANGED <<epochs, batch_size, X, y, scaler_X, X_scaled,
                   y_scaled, ind_train, ind_test, X_train, y_train, X_val,
                   y_val, params, opt, grad, mode, train_losses, val_losses,
                   epoch, train_loss, val_loss, batches, bi, loss, y_pred>>

\* Lines 166-170: mean_squared_error and r2_score reject non-finite input.
Metrics ==
    /\ pc = "metrics"
    /\ IF y_pred.finite
       THEN pc' = "done" /\ UNCHANGED error
       ELSE Fail("ValueError")
    /\ UNCHANGED <<epochs, batch_size, X, y, scaler_X, scaler_y, X_scaled,
                   y_scaled, ind_train, ind_test, X_train, y_train, X_val,
                   y_val, params, opt, grad, mode, train_losses, val_losses,
                   epoch, train_loss, val_loss, batches, bi, loss, y_pred,
                   y_train_actual, y_val_actual>>

Next ==
    \/ FitTransformX
    \/ FitTransformY
    \/ ShuffleSplit
    \/ Indexing
    \/ Initialize
    \/ StartEpoch
    \/ ZeroGrad
    \/ Forward
    \/ Backward
    \/ Step
    \/ Accumulate
    \/ AppendTrainLoss
    \/ BeginValidation
    \/ ValBatch
    \/ AppendValLoss
    \/ FinishTraining
    \/ Evaluate
    \/ Denormalize
    \/ Metrics

Spec == Init /\ [][Next]_vars

\* The statements of the training loop, lines 122-144.
TrainerNext ==
    \/ StartEpoch
    \/ ZeroGrad
    \/ Forward
    \/ Backward
    \/ Step
    \/ Accumulate
    \/ AppendTrainLoss
    \/ BeginValidation
    \/ ValBatch
    \/ AppendValLoss
    \/ FinishTraining

\* The tables without a constant column (a single row excepted).
LiveInit == InitWith({0})

\* The script is one sequential thread with no blocking call in the loop: a
\* statement of the loop that can run does run.  The loop does not read the
\* data, so the tables of LiveInit suffice.
LiveSpec == LiveInit /\ [][Next]_vars /\ WF_vars(TrainerNext)

\* ====================================================== shared notions
Range(f) == {f[i] : i \in 1..Len(f)}

TrainBatchPcs == {"forward", "backward", "step", "accumulate"}
TrainerPcs == {"epoch", "train_iter", "validate", "val_iter"} \cup TrainBatchPcs
PostTrainingPcs == {"evaluate", "denormalize", "metrics", "done"}
TrainerDone == pc \in PostTrainingPcs

HasConstantColumn(M) ==
    Len(M) > 0 /\ \E c \in 1..Len(M[1]) : \A i \in 1..Len(M) : M[i][c] = M[1][c]

\* ================================================================= C1
\* C1 (as claimed): once a training batch's combined loss is non-finite the
\* loop stops with TrainingDivergenceError, so no optimizer update is ever
\* applied from a non-finite loss and no non-finite total is carried on.
C1_DivergenceStopsTraining ==
    /\ ~(pc = "accumulate" /\ ~loss.finite)
    /\ (~train_loss.finite => pc = "failed" /\ error = "TrainingDivergenceError")

\* ================================================================= C2
\* C2 (as claimed): a table with a constant feature or target column fails
\* when the scaler is fitted, so the script never gets to the result of the
\* split or to anything after it.
C2_DegenerateColumnRaises ==
    (HasConstantColumn(X) \/ HasConstantColumn(y)) =>
        pc \in {"fit_X", "fit_y", "split", "failed"}

\* ================================================================= C3
SplitWasMade == pc \in {"init_model"} \cup TrainerPcs \cup PostTrainingPcs

\* C3 (as claimed): the training set holds ceil(N * (1 - f)) samples and the
\* validation set the remaining ones.
C3_TrainSizeIsCeil ==
    SplitWasMade =>
        /\ Len(X_train) = CeilDiv(Len(X) * (TestSizeDen - TestSizeNum), TestSizeDen)
        /\ Len(X_val) = Len(X) - Len(X_train)

\* C3 (amended): the validation set holds ceil(N * f) samples and the
\* training set the remaining floor(N * (1 - f)), for every N on which the
\* split succeeds; the index arrays and the four arrays have these sizes.
C3_ValSizeIsCeil ==
    /\ pc = "index" =>
          /\ Len(ind_test) = CeilDiv(Len(X) * TestSizeNum, TestSizeDen)
          /\ Len(ind_train) = (Len(X) * (TestSizeDen - TestSizeNum)) \div TestSizeDen
    /\ SplitWasMade =>
          /\ Len(X_val) = CeilDiv(Len(X) * TestSizeNum, TestSizeDen)
          /\ Len(X_train) = (Len(X) * (TestSizeDen - TestSizeNum)) \div TestSizeDen
          /\ Len(y_val) = Len(X_val)
          /\ Len(y_train) = Len(X_train)

C3_Witness ==
    pc = "init_model" /\ Len(X) = 5 /\ Len(X_train) = 3 /\ Len(X_val) = 2

\* ================================================================= C4
\* C4: the split partitions the sample indices: no index is in both index
\* arrays or twice in one, together they are all of 1..N, and the sizes of
\* the training and the validation set add up to N.
C4_SplitIsPartition ==
    /\ pc = "index" =>
          /\ Range(ind_train) \cap Range(ind_test) = {}
          /\ Range(ind_train) \cup Range(ind_test) = 1..Len(X_scaled)
          /\ Cardinality(Range(ind_train)) = Len(ind_train)
          /\ Cardinality(Range(ind_test)) = Len(ind_test)
          /\ Len(ind_train) + Len(ind_test) = Len(X_scaled)
    /\ SplitWasMade => Len(X_train) + Len(X_val) = Len(X_scaled)

C4_Witness ==
    pc = "index" /\ Len(X_scaled) = 5 /\ Len(ind_train) = 3 /\ Len(ind_test) = 2

\* ================================================================= C5
\* C5: the trainer, once initialized, always reaches Done; it is Done only
\* with exactly `epochs` epochs completed; the epoch counter moves only by
\* one and only when the validation loader is exhausted; validation begins
\* only when the training loader is exhausted; and a new epoch begins only
\* from the loop header, with fewer than `epochs` epochs completed.
EpochEndsAfterValidation ==
    (epoch' # epoch) =>
        (/\ pc = "val_iter"
         /\ bi = Len(batches) + 1
         /\ Len(batches) = NumBatches(Len(X_val), batch_size)
         /\ epoch' = epoch + 1)

ValidationFollowsTraining ==
    (pc # "validate" /\ pc' = "validate") =>
        (/\ pc = "train_iter"
         /\ bi = Len(batches) + 1
         /\ Len(batches) = NumBatches(Len(X_train), batch_size))

EpochBeginsAtLoopHeader ==
    (pc \notin ({"train_iter"} \cup TrainBatchPcs) /\ pc' = "train_iter") =>
        (pc = "epoch" /\ epoch < epochs)

C5_RunsAllEpochsThenDone ==
    /\ (pc = "epoch" /\ epoch = 0) ~> TrainerDone
    /\ [](TrainerDone => epoch = epochs)
    /\ [](pc \in TrainerPcs => epoch <= epochs)
    /\ [](pc \in (TrainerPcs \ {"epoch"}) => epoch < epochs)
    /\ [][EpochEndsAfterValidation]_vars
    /\ [][ValidationFollowsTraining]_vars
    /\ [][EpochBeginsAtLoopHeader]_vars

C5_Witness ==
    pc = "evaluate" /\ epochs = MaxEpochs /\ epoch = MaxEpochs /\ Len(X_train) = 3

\* ================================================================= C6
IsPrefix(a, b) ==
    Len(a) <= Len(b) /\ \A i \in 1..Len(a) : a[i] = b[i]

\* C6: after k completed epochs both histories hold k entries, except that
\* between the two appends of an epoch the train history is one ahead; at
\* Done both hold `epochs` entries; and every step leaves the entries already
\* in a history in place, adding at most one at its end.
HistoryLengths ==
    pc \in (TrainerPcs \cup PostTrainingPcs) =>
        (/\ Len(val_losses) = epoch
         /\ Len(train_losses) =
               (IF pc \in {"validate", "val_iter"} THEN epoch + 1 ELSE epoch))

HistoryOnlyGrowsAtItsEnd ==
    /\ IsPrefix(train_losses, train_losses')
    /\ IsPrefix(val_losses, val_losses')
    /\ Len(train_losses') <= Len(train_losses) + 1
    /\ Len(val_losses') <= Len(val_losses) + 1
    /\ (Len(val_losses') > Len(val_losses)) =>
          (Len(train_losses) = Len(val_losses) + 1)

C6_HistoryAppendOnly ==
    /\ []HistoryLengths
    /\ [](TrainerDone => (Len(train_losses) = epochs /\ Len(val_losses) = epochs))
    /\ [][HistoryOnlyGrowsAtItsEnd]_vars

C6_Witness ==
    /\ pc = "evaluate"
    /\ Len(train_losses) = 2 /\ Len(val_losses) = 2
    /\ train_losses[1].finite /\ ~train_losses[2].finite
    /\ val_losses[1].finite /\ ~val_losses[2].finite

\* ================================================================= C7
\* C7: after initialization the parameters change only in optimizer.step()
\* of a training batch; a validation-batch step and every step of the
\* post-training evaluation leave the parameters, the optimizer state and
\* the gradient buffers as they are.
ValidationAndEvaluationReadOnly ==
    (pc \in ({"validate", "val_iter"} \cup PostTrainingPcs)) =>
        (params' = params /\ opt' = opt /\ grad' = grad)

UpdatesOnlyInStep ==
    (pc \in (TrainerPcs \cup PostTrainingPcs) /\ (params' # params \/ opt' # opt)) =>
        (pc = "step")

C7_OnlyTrainingStepsUpdate ==
    /\ [][ValidationAndEvaluationReadOnly]_vars
    /\ [][UpdatesOnlyInStep]_vars

C7_Witness ==
    pc = "done" /\ params.updates = 4 /\ Len(val_losses) = 2 /\ y_pred.at = 4

\* ================================================================= C8
IsFitOf(s, M) ==
    /\ Len(s.data_min) = Len(M[1])
    /\ \A c \in 1..Len(M[1]) :
          /\ s.data_min[c] = ColMin(M, c)
          /\ s.data_max[c] = ColMax(M, c)

\* C8: a fitted scaler holds the min and max of the full raw column, in every
\* state from its fit to the end; both scalers are fitted before any index
\* array or split array exists; and the targets the evaluator recovers with
\* the inverse transform are raw target values again.
C8_ScalerFittedOnceOnFullData ==
    /\ scaler_X # Unfitted => IsFitOf(scaler_X, X)
    /\ scaler_y # Unfitted => IsFitOf(scaler_y, y)
    /\ pc \notin {"fit_X", "fit_y", "failed"} =>
          scaler_X # Unfitted /\ scaler_y # Unfitted
    /\ (ind_train # <<>> \/ X_train # <<>> \/ X_val # <<>>) =>
          scaler_X # Unfitted /\ scaler_y # Unfitted
    /\ pc \in {"metrics", "done"} =>
          /\ Len(y_train_actual) = Len(y_train)
          /\ Len(y_val_actual) = Len(y_val)
          /\ \A i \in 1..Len(y_train_actual) :
                \E j \in 1..Len(y) : y_train_actual[i] = <<FracOfInt(y[j][1])>>
          /\ \A i \in 1..Len(y_val_actual) :
                \E j \in 1..Len(y) : y_val_actual[i] = <<FracOfInt(y[j][1])>>

C8_Witness ==
    /\ pc = "done"
    /\ Len(y) = 5
    /\ scaler_y.data_min = <<2>> /\ scaler_y.data_max = <<5>>
    /\ y_val_actual = <<<<FracOfInt(2)>>, <<FracOfInt(2)>>>>

\* ================================================================= C9
\* The batches partition the indices 1..n into groups of `size`, the last
\* one non-empty and possibly shorter.
IsBatchPartition(bs, n, size) ==
    /\ Len(bs) = CeilDiv(n, size)
    /\ \A k \in 1..Len(bs) :
          /\ Len(bs[k]) >= 1
          /\ Len(bs[k]) <= size
          /\ k < Len(bs) => Len(bs[k]) = size
    /\ \A i \in 1..n :
          Cardinality({kj \in {<<k, j>> : k \in 1..Len(bs), j \in 1..size} :
                          kj[2] <= Len(bs[kj[1]]) /\ bs[kj[1]][kj[2]] = i}) = 1

\* C9: while an epoch's training batches are being visited they partition
\* the training set into ceil(n_train / batch_size) batches and the loop
\* visits each of them once; the same for the validation batches, which
\* moreover are the consecutive groups of the validation set in its own
\* order, in every epoch.
C9_BatchesPartitionTheSets ==
    /\ pc \in ({"train_iter"} \cup TrainBatchPcs) =>
          /\ IsBatchPartition(batches, Len(X_train), batch_size)
          /\ bi \in 1..(Len(batches) + 1)
          /\ pc \in TrainBatchPcs => bi <= Len(batches)
          /\ train_loss.terms = bi - 1
    /\ pc = "validate" =>
          /\ bi = Len(batches) + 1
          /\ train_losses[Len(train_losses)].terms = NumBatches(Len(X_train), batch_size)
    /\ pc = "val_iter" =>
          /\ IsBatchPartition(batches, Len(X_val), batch_size)
          /\ \A k \in 1..Len(batches) : \A j \in 1..Len(batches[k]) :
                batches[k][j] = (k - 1) * batch_size + j
          /\ bi \in 1..(Len(batches) + 1)
          /\ val_loss.terms = bi - 1
    /\ pc = "epoch" /\ epoch > 0 =>
          /\ bi = Len(batches) + 1
          /\ val_losses[Len(val_losses)].terms = NumBatches(Len(X_val), batch_size)

C9_Witness ==
    /\ pc = "validate"
    /\ batch_size = 2
    /\ Len(batches) = 2 /\ Len(batches[1]) = 2 /\ Len(batches[2]) = 1

\* ================================================================ C10
\* C10: in a training-batch step the gradient buffers are empty when the
\* loss is computed, the loss is computed on the parameters as they are
\* before the update, the update is made from the gradient of the current
\* batch alone and is one update, the batch loss is added to the running
\* total after it; and with k epochs completed k * ceil(n_train /
\* batch_size) updates have been applied.
C10_BatchStepOrder ==
    /\ pc \in {"forward", "backward"} => grad = <<>>
    /\ pc \in {"backward", "step"} =>
          loss.at = params.updates /\ loss.batch = batches[bi]
    /\ pc = "step" =>
          grad = <<[batch |-> batches[bi], finite |-> loss.finite]>>
    /\ pc = "accumulate" =>
          /\ params.updates = loss.at + 1
          /\ loss.batch = batches[bi]
          /\ train_loss.terms = bi - 1
    /\ pc \in ({"train_iter"} \cup TrainBatchPcs) =>
          /\ params.updates =
                epoch * NumBatches(Len(X_train), batch_size) + (bi - 1)
                + (IF pc = "accumulate" THEN 1 ELSE 0)
          /\ pc # "accumulate" => train_loss.terms = bi - 1
    /\ pc \in ({"epoch", "validate", "val_iter"} \cup PostTrainingPcs) =>
          params.updates =
              (epoch + IF pc \in {"validate", "val_iter"} THEN 1 ELSE 0)
              * NumBatches(Len(X_train), batch_size)
    /\ pc \in (TrainerPcs \cup PostTrainingPcs) => opt.steps = params.updates

C10_Witness ==
    pc = "epoch" /\ epoch = 2 /\ batch_size = 2 /\ Len(X_train) = 3 /\ params.updates = 4
====
